---- MODULE Spec2Model ----
(***************************************************************************)
(* Serial CSR kernels of nalgebra-sparse (ops/serial/csr.rs):              *)
(*   spmm_csr_dense   C <- beta*C + alpha*op(A)*op(B)   A sparse, B,C dense *)
(*   spadd_csr        C <- beta*C + alpha*op(A)         A, C sparse         *)
(*   spmm_csr         C <- beta*C + alpha*op(A)*op(B)   A, B, C sparse      *)
(*                                                                         *)
(* A CSR matrix is the record                                              *)
(*   [nrows, ncols, row_offsets, col_indices, values, pattern]             *)
(* row i (1-based here, 0-based in Rust) owns the flat positions           *)
(* row_offsets[i]+1 .. row_offsets[i+1] of col_indices and values;         *)
(* pattern is the identity of the shared pattern object (the Arc pointer). *)
(* A dense matrix is [nrows, ncols, data] with data[i][j].                 *)
(* Scalars are integers (the kernels are generic over a ring T).           *)
(***************************************************************************)
EXTENDS Integers, Sequences, FiniteSets, TLC

VARIABLES op, pc, a, b, c, c0, beta, alpha, trans_a, trans_b, result, calls, unreachable

vars == <<op, pc, a, b, c, c0, beta, alpha, trans_a, trans_b, result, calls, unreachable>>

\* Largest row or column count of any operand.
MaxDim == 2

Dims == 1..MaxDim

\* <<beta, alpha>>: beta zero, beta one (the scaling the code skips), and neither.
ScalarPairs == {<<0, 1>>, <<1, 2>>, <<2, 1>>, <<2, 3>>}

Min(x, y) == IF x <= y THEN x ELSE y

(***************************************************************************)
(* Construction of operands (the CsrMatrix / DMatrix collaborators).       *)
(***************************************************************************)
Positions(nr, nc) == (1..nr) \X (1..nc)

\* Row-major order of positions.
Before(p, q) == p[1] < q[1] \/ (p[1] = q[1] /\ p[2] < q[2])

Rank(P, p) == Cardinality({q \in P : Before(q, p)}) + 1

Entry(P, r) == CHOOSE p \in P : Rank(P, p) = r

\* Entry values are fixed per position and pairwise distinct within a matrix.
AVal == [q \in Positions(MaxDim, MaxDim) |-> (q[1] - 1) * MaxDim + q[2]]

BVal == [q \in Positions(MaxDim, MaxDim) |-> 2 * ((q[1] - 1) * MaxDim + q[2]) + 3]

CVal == [q \in Positions(MaxDim, MaxDim) |-> 10 * q[1] + q[2]]

\* The CSR matrix with stored positions P (columns sorted, no duplicates).
MkCsr(nr, nc, P, val, pat) ==
    [nrows |-> nr, ncols |-> nc,
     row_offsets |-> [i \in 1..(nr + 1) |-> Cardinality({q \in P : q[1] < i})],
     col_indices |-> [r \in 1..Cardinality(P) |-> Entry(P, r)[2]],
     values |-> [r \in 1..Cardinality(P) |-> val[Entry(P, r)]],
     pattern |-> pat]

MkDense(nr, nc, val) ==
    [nrows |-> nr, ncols |-> nc, data |-> [i \in 1..nr |-> [j \in 1..nc |-> val[<<i, j>>]]]]

(***************************************************************************)
(* Accessors of CsrMatrix used by the kernels.                             *)
(***************************************************************************)
RowBegin(m, i) == m.row_offsets[i] + 1

RowEnd(m, i) == m.row_offsets[i + 1]

Nnz(m) == Len(m.values)

\* The row that owns flat position p.
RowOf(m, p) == CHOOSE i \in 1..m.nrows : RowBegin(m, i) <= p /\ p <= RowEnd(m, i)

\* The set of stored (row, col) positions.
PatternOf(m) == {<<RowOf(m, p), m.col_indices[p]>> : p \in 1..Nnz(m)}

\* The value at (i, j), zero where nothing is stored.
Get(m, i, j) ==
    IF \E p \in RowBegin(m, i)..RowEnd(m, i) : m.col_indices[p] = j
    THEN m.values[CHOOSE p \in RowBegin(m, i)..RowEnd(m, i) : m.col_indices[p] = j]
    ELSE 0

\* CsrMatrix::transpose: an owned matrix with a pattern object of its own.
Transposed(m) ==
    LET P == {<<q[2], q[1]>> : q \in PatternOf(m)}
        val == [q \in Positions(m.ncols, m.nrows) |-> Get(m, q[2], q[1])]
    IN MkCsr(m.ncols, m.nrows, P, val, "owned")

OpRows(m, t) == IF t THEN m.ncols ELSE m.nrows

OpCols(m, t) == IF t THEN m.nrows ELSE m.ncols

\* assert_compatible_spmm_dims!
CompatibleSpmmDims(cm, am, bm, ta, tb) ==
    /\ cm.nrows = OpRows(am, ta)
    /\ cm.ncols = OpCols(bm, tb)
    /\ OpCols(am, ta) = OpRows(bm, tb)

\* assert_compatible_spadd_dims!
CompatibleSpaddDims(cm, am, ta) ==
    /\ cm.nrows = OpRows(am, ta)
    /\ cm.ncols = OpCols(am, ta)

(***************************************************************************)
(* spmm_csr_dense_                                                         *)
(***************************************************************************)
\* Faulty variant: the pre-multiplication by beta is left out.
ScaleDenseSkipped(cm, s) == cm

\* c *= beta
ScaleDense(cm, s) ==
    [cm EXCEPT !.data = [i \in 1..cm.nrows |-> [j \in 1..cm.ncols |-> cm.data[i][j] * s]]]

\* b_contrib: b[(j, k)] when B is transposed, b[(k, j)] otherwise.
BContrib(bm, tb, k, j) == IF tb THEN bm.data[j][k] ELSE bm.data[k][j]

\* dot_ij accumulated over the stored entries p..stop of row i of A.
RECURSIVE DotFrom(_, _, _, _, _, _, _)
DotFrom(am, bm, tb, j, p, stop, acc) ==
    IF p > stop THEN acc
    ELSE DotFrom(am, bm, tb, j, p + 1, stop,
                 acc + am.values[p] * BContrib(bm, tb, am.col_indices[p], j))

\* Dot-product path: C[i,j] = beta*C[i,j] + alpha*dot_ij, rows zipped with A's rows.
DensePathDot(cm, be, al, am, tb, bm) ==
    [cm EXCEPT !.data =
        [i \in 1..cm.nrows |-> [j \in 1..cm.ncols |->
            IF i <= Min(cm.nrows, am.nrows)
            THEN be * cm.data[i][j]
                 + al * DotFrom(am, bm, tb, j, RowBegin(am, i), RowEnd(am, i), 0)
            ELSE cm.data[i][j]]]]

\* Length of b.column(k) / b.row(k), the sequence zipped with row i of C.
BLineLen(bm, tb) == IF tb THEN bm.nrows ELSE bm.ncols

\* The element t of b.column(k) (B transposed) or of b.row(k).
BLine(bm, tb, k, t) == IF tb THEN bm.data[t][k] ELSE bm.data[k][t]

\* Row i of C after c_ij += gamma_ki * b_line[j] over the zipped prefix.
ScatterRow(cm, i, gamma, bm, tb, k) ==
    [cm EXCEPT !.data[i] =
        [j \in 1..cm.ncols |->
            IF j <= Min(cm.ncols, BLineLen(bm, tb))
            THEN cm.data[i][j] + gamma * BLine(bm, tb, k, j)
            ELSE cm.data[i][j]]]

\* Scatter path: the stored entries of A in storage order, from flat position p.
RECURSIVE ScatterFrom(_, _, _, _, _, _)
ScatterFrom(cm, al, am, tb, bm, p) ==
    IF p > Nnz(am) THEN cm
    ELSE ScatterFrom(ScatterRow(cm, am.col_indices[p], al * am.values[p], bm, tb, RowOf(am, p)),
                     al, am, tb, bm, p + 1)

\* Faulty variant: C is scaled before the dimensions are checked.
spmm_csr_dense_ScaleFirst(cm, be, al, ta, am, tb, bm) ==
    IF ~CompatibleSpmmDims(cm, am, bm, ta, tb)
    THEN [result |-> "Panic", c |-> ScaleDense(cm, be)]
    ELSE IF ta
         THEN [result |-> "Ok", c |-> ScatterFrom(ScaleDense(cm, be), al, am, tb, bm, 1)]
         ELSE [result |-> "Ok", c |-> DensePathDot(cm, be, al, am, tb, bm)]

spmm_csr_dense_(cm, be, al, ta, am, tb, bm) ==
    IF ~CompatibleSpmmDims(cm, am, bm, ta, tb)
    THEN [result |-> "Panic", c |-> cm]
    ELSE IF ta
         THEN [result |-> "Ok", c |-> ScatterFrom(ScaleDense(cm, be), al, am, tb, bm, 1)]
         ELSE [result |-> "Ok", c |-> DensePathDot(cm, be, al, am, tb, bm)]

(***************************************************************************)
(* spadd_csr                                                               *)
(***************************************************************************)
\* Values p..stop (one row, or all of them) multiplied by s.
ScaleRange(vals, from, stop, s) ==
    [p \in 1..Len(vals) |-> IF from <= p /\ p <= stop THEN vals[p] * s ELSE vals[p]]

\* cols.iter().enumerate().find(..) over the slice from..stop: the first flat
\* position holding column j, 0 when there is none.
FindFrom(cols, from, stop, j) ==
    IF \E q \in from..stop : cols[q] = j
    THEN CHOOSE q \in from..stop : cols[q] = j /\ \A q2 \in from..(q - 1) : cols[q2] # j
    ELSE 0

\* Faulty variant: the two coefficients are exchanged.
FastPathSwapped(cm, be, al, am) ==
    [cm EXCEPT !.values =
        [p \in 1..Len(cm.values) |->
            IF p <= Len(am.values) THEN al * cm.values[p] + be * am.values[p]
            ELSE cm.values[p]]]

\* Fast path: the value arrays zipped, c_ij = beta*c_ij + alpha*a_ij.
FastPath(cm, be, al, am) ==
    [cm EXCEPT !.values =
        [p \in 1..Len(cm.values) |->
            IF p <= Len(am.values) THEN be * cm.values[p] + al * am.values[p]
            ELSE cm.values[p]]]

\* Faulty variant: a structural zero of C is filled in instead of reported.
RECURSIVE AddTransposedInserting(_, _, _, _)
AddTransposedInserting(cm, al, am, p) ==
    IF p > Nnz(am) THEN [result |-> "Ok", c |-> cm]
    ELSE LET i == RowOf(am, p)
             j == am.col_indices[p]
             q == FindFrom(cm.col_indices, RowBegin(cm, j), RowEnd(cm, j), i)
             val == [x \in Positions(cm.nrows, cm.ncols) |->
                        IF x = <<j, i>> THEN al * am.values[p] ELSE Get(cm, x[1], x[2])]
         IN IF q = 0
            THEN AddTransposedInserting(
                     MkCsr(cm.nrows, cm.ncols, PatternOf(cm) \cup {<<j, i>>}, val, cm.pattern),
                     al, am, p + 1)
            ELSE AddTransposedInserting([cm EXCEPT !.values[q] = @ + al * am.values[p]],
                                        al, am, p + 1)

\* Transposed general path: the stored entries (i, j) of A in storage order, each
\* added at c.index_entry_mut(j, i); the first structural zero ends the call.
RECURSIVE AddTransposedFrom(_, _, _, _)
AddTransposedFrom(cm, al, am, p) ==
    IF p > Nnz(am) THEN [result |-> "Ok", c |-> cm]
    ELSE LET i == RowOf(am, p)
             j == am.col_indices[p]
             q == FindFrom(cm.col_indices, RowBegin(cm, j), RowEnd(cm, j), i)
         IN IF q = 0 THEN [result |-> "InvalidPattern", c |-> cm]
            ELSE AddTransposedFrom([cm EXCEPT !.values[q] = @ + al * am.values[p]],
                                   al, am, p + 1)

\* One row of the non-transposed general path: the entries p..stop of A's row,
\* each searched in C's row from the position of the previous hit onwards.
RECURSIVE AddRowScan(_, _, _, _, _, _, _)
AddRowScan(cm, al, am, p, stop, from, cstop) ==
    IF p > stop THEN [result |-> "Ok", c |-> cm]
    ELSE LET q == FindFrom(cm.col_indices, from, cstop, am.col_indices[p])
         IN IF q = 0 THEN [result |-> "InvalidPattern", c |-> cm]
            ELSE AddRowScan([cm EXCEPT !.values[q] = @ + al * am.values[p]],
                            al, am, p + 1, stop, q, cstop)

\* Row i scaled by beta unless beta is one.
ScaleRowUnlessOne(cm, i, be) ==
    IF be # 1
    THEN [cm EXCEPT !.values = ScaleRange(cm.values, RowBegin(cm, i), RowEnd(cm, i), be)]
    ELSE cm

\* Faulty variant: all of C is scaled before the first row is scanned.
RECURSIVE AddRowsPrescaled(_, _, _, _, _)
AddRowsPrescaled(cm, be, al, am, i) ==
    IF i > Min(cm.nrows, am.nrows) THEN [result |-> "Ok", c |-> cm]
    ELSE LET scaled == IF i = 1 /\ be # 1
                       THEN [cm EXCEPT !.values = ScaleRange(cm.values, 1, Len(cm.values), be)]
                       ELSE cm
             r == AddRowScan(scaled, al, am, RowBegin(am, i), RowEnd(am, i),
                             RowBegin(cm, i), RowEnd(cm, i))
         IN IF r.result # "Ok" THEN r
            ELSE AddRowsPrescaled(r.c, be, al, am, i + 1)

\* Non-transposed general path: the rows of C zipped with the rows of A, from row i.
RECURSIVE AddRows(_, _, _, _, _)
AddRows(cm, be, al, am, i) ==
    IF i > Min(cm.nrows, am.nrows) THEN [result |-> "Ok", c |-> cm]
    ELSE LET r == AddRowScan(ScaleRowUnlessOne(cm, i, be), al, am,
                             RowBegin(am, i), RowEnd(am, i),
                             RowBegin(cm, i), RowEnd(cm, i))
         IN IF r.result # "Ok" THEN r
            ELSE AddRows(r.c, be, al, am, i + 1)

spadd_csr(cm, be, al, ta, am) ==
    IF ~CompatibleSpaddDims(cm, am, ta)
    THEN [result |-> "Panic", c |-> cm]
    ELSE IF cm.pattern = am.pattern
         THEN [result |-> "Ok", c |-> FastPath(cm, be, al, am)]
         ELSE IF ta
              THEN AddTransposedFrom(
                       IF be # 1
                       THEN [cm EXCEPT !.values = ScaleRange(cm.values, 1, Len(cm.values), be)]
                       ELSE cm,
                       al, am, 1)
              ELSE AddRows(cm, be, al, am, 1)

(***************************************************************************)
(* spmm_csr                                                                *)
(***************************************************************************)
\* Faulty variant: the scan of C's row goes on from the previous hit.
ScanStartKept(cm, i, prev) == IF prev = 0 THEN RowBegin(cm, i) ELSE prev

\* c_row_i.cols_and_values_mut() is taken anew for every stored A[i,k]: the scan
\* of C's row i starts at the row's first entry (prev: the last hit so far).
ScanStart(cm, i, prev) == RowBegin(cm, i)

\* The entries pb..bstop of B's row k, each searched in C's row from the position
\* of the previous hit onwards and increased by alpha_aik * b_kj.
RECURSIVE MulRowScan(_, _, _, _, _, _, _)
MulRowScan(cm, alpha_aik, bm, pb, bstop, from, cstop) ==
    IF pb > bstop THEN [result |-> "Ok", c |-> cm, at |-> from]
    ELSE LET q == FindFrom(cm.col_indices, from, cstop, bm.col_indices[pb])
         IN IF q = 0 THEN [result |-> "InvalidPattern", c |-> cm, at |-> from]
            ELSE MulRowScan([cm EXCEPT !.values[q] = @ + alpha_aik * bm.values[pb]],
                            alpha_aik, bm, pb + 1, bstop, q, cstop)

\* The stored entries p..stop of A's row i.
RECURSIVE MulEntries(_, _, _, _, _, _, _, _)
MulEntries(cm, al, am, bm, i, p, stop, prev) ==
    IF p > stop THEN [result |-> "Ok", c |-> cm]
    ELSE LET k == am.col_indices[p]
             r == MulRowScan(cm, al * am.values[p], bm, RowBegin(bm, k), RowEnd(bm, k),
                             ScanStart(cm, i, prev), RowEnd(cm, i))
         IN IF r.result # "Ok" THEN [result |-> r.result, c |-> r.c]
            ELSE MulEntries(r.c, al, am, bm, i, p + 1, stop, r.at)

\* The base case: the rows of C zipped with the rows of A, from row i.
RECURSIVE MulRows(_, _, _, _, _, _)
MulRows(cm, be, al, am, bm, i) ==
    IF i > Min(cm.nrows, am.nrows) THEN [result |-> "Ok", c |-> cm]
    ELSE LET scaled == [cm EXCEPT !.values =
                            ScaleRange(cm.values, RowBegin(cm, i), RowEnd(cm, i), be)]
             r == MulEntries(scaled, al, am, bm, i, RowBegin(am, i), RowEnd(am, i), 0)
         IN IF r.result # "Ok" THEN r
            ELSE MulRows(r.c, be, al, am, bm, i + 1)

\* if !trans_a.to_bool() && !trans_b.to_bool()
IsBaseCase(ta, tb) == ~ta /\ ~tb

\* Faulty variant: the arms for (false, false) and (true, true) are exchanged.
TransposedOperandsArmsSwapped(ta, tb, am, bm) ==
    CASE ta /\ tb -> [a |-> am, b |-> bm, unreachable |-> TRUE]
      [] ta /\ ~tb -> [a |-> Transposed(am), b |-> bm, unreachable |-> FALSE]
      [] ~ta /\ tb -> [a |-> am, b |-> Transposed(bm), unreachable |-> FALSE]
      [] ~ta /\ ~tb -> [a |-> Transposed(am), b |-> Transposed(bm), unreachable |-> FALSE]

\* Faulty variant: with both flags set, B is passed on as it is.
TransposedOperandsKeepB(ta, tb, am, bm) ==
    CASE ~ta /\ ~tb -> [a |-> am, b |-> bm, unreachable |-> TRUE]
      [] ta /\ ~tb -> [a |-> Transposed(am), b |-> bm, unreachable |-> FALSE]
      [] ~ta /\ tb -> [a |-> am, b |-> Transposed(bm), unreachable |-> FALSE]
      [] ta /\ tb -> [a |-> Transposed(am), b |-> bm, unreachable |-> FALSE]

\* match (trans_a, trans_b): the operands of the recursive call.
TransposedOperands(ta, tb, am, bm) ==
    CASE ~ta /\ ~tb -> [a |-> am, b |-> bm, unreachable |-> TRUE]
      [] ta /\ ~tb -> [a |-> Transposed(am), b |-> bm, unreachable |-> FALSE]
      [] ~ta /\ tb -> [a |-> am, b |-> Transposed(bm), unreachable |-> FALSE]
      [] ta /\ tb -> [a |-> Transposed(am), b |-> Transposed(bm), unreachable |-> FALSE]

\* calls counts the recursive calls made; unreachable tells that the
\* (Transpose(false), Transpose(false)) arm of the match was entered.
RECURSIVE spmm_csr(_, _, _, _, _, _, _)
spmm_csr(cm, be, al, ta, am, tb, bm) ==
    IF ~CompatibleSpmmDims(cm, am, bm, ta, tb)
    THEN [result |-> "Panic", c |-> cm, calls |-> 0, unreachable |-> FALSE]
    ELSE IF IsBaseCase(ta, tb)
         THEN LET r == MulRows(cm, be, al, am, bm, 1)
              IN [result |-> r.result, c |-> r.c, calls |-> 0, unreachable |-> FALSE]
         ELSE LET ops == TransposedOperands(ta, tb, am, bm)
              IN IF ops.unreachable
                 THEN [result |-> "Panic", c |-> cm, calls |-> 0, unreachable |-> TRUE]
                 ELSE LET r == spmm_csr(cm, be, al, FALSE, ops.a, FALSE, ops.b)
                      IN [r EXCEPT !.calls = @ + 1]

(***************************************************************************)
(* The calls: the operands are drawn at the start, one kernel runs on them.*)
(***************************************************************************)
Bit(x) == IF x THEN 1 ELSE 0

\* Shapes with at most one of the three dimension equations violated.
SpmmShapesOk(ta, tb, ra, ca, rb, cb, rc, cc) ==
    Bit(rc # (IF ta THEN ca ELSE ra)) + Bit(cc # (IF tb THEN rb ELSE cb))
        + Bit((IF ta THEN ra ELSE ca) # (IF tb THEN cb ELSE rb)) <= 1

InitCommon ==
    /\ pc = "ready"
    /\ result = "none"
    /\ calls = 0
    /\ unreachable = FALSE
    /\ c0 = c
    /\ \E s \in ScalarPairs : beta = s[1] /\ alpha = s[2]

InitDense ==
    /\ op = "spmm_csr_dense"
    /\ trans_a \in BOOLEAN /\ trans_b \in BOOLEAN
    /\ \E ra, ca, rb, cb, rc, cc \in Dims :
        /\ SpmmShapesOk(trans_a, trans_b, ra, ca, rb, cb, rc, cc)
        /\ \E PA \in SUBSET Positions(ra, ca) : a = MkCsr(ra, ca, PA, AVal, "pa")
        /\ b = MkDense(rb, cb, BVal)
        /\ c = MkDense(rc, cc, CVal)
    /\ InitCommon

\* C either shares A's pattern object (and so has A's stored shape) or owns a
\* pattern of its own, of any structure.
InitAdd ==
    /\ op = "spadd_csr"
    /\ trans_a \in BOOLEAN /\ trans_b = FALSE
    /\ b = "none"
    /\ \E ra, ca \in Dims : \E PA \in SUBSET Positions(ra, ca) :
        /\ a = MkCsr(ra, ca, PA, AVal, "pa")
        /\ \/ c = MkCsr(ra, ca, PA, CVal, "pa")
           \/ \E rc, cc \in Dims : \E PC \in SUBSET Positions(rc, cc) :
                /\ Bit(rc # (IF trans_a THEN ca ELSE ra))
                     + Bit(cc # (IF trans_a THEN ra ELSE ca)) <= 1
                /\ c = MkCsr(rc, cc, PC, CVal, "pc")
    /\ InitCommon

InitMM ==
    /\ op = "spmm_csr"
    /\ trans_a \in BOOLEAN /\ trans_b \in BOOLEAN
    /\ \E ra, ca, rb, cb, rc, cc \in Dims :
        /\ SpmmShapesOk(trans_a, trans_b, ra, ca, rb, cb, rc, cc)
        /\ \E PA \in SUBSET Positions(ra, ca) : a = MkCsr(ra, ca, PA, AVal, "pa")
        /\ \E PB \in SUBSET Positions(rb, cb) : b = MkCsr(rb, cb, PB, BVal, "pb")
        /\ \E PC \in SUBSET Positions(rc, cc) : c = MkCsr(rc, cc, PC, CVal, "pc")
    /\ InitCommon

Init == InitDense \/ InitAdd \/ InitMM

SpmmCsrDense ==
    /\ pc = "ready" /\ op = "spmm_csr_dense"
    /\ LET r == spmm_csr_dense_(c, beta, alpha, trans_a, a, trans_b, b)
       IN c' = r.c /\ result' = r.result
    /\ pc' = "done"
    /\ UNCHANGED <<op, a, b, c0, beta, alpha, trans_a, trans_b, calls, unreachable>>

SpaddCsr ==
    /\ pc = "ready" /\ op = "spadd_csr"
    /\ LET r == spadd_csr(c, beta, alpha, trans_a, a)
       IN c' = r.c /\ result' = r.result
    /\ pc' = "done"
    /\ UNCHANGED <<op, a, b, c0, beta, alpha, trans_a, trans_b, calls, unreachable>>

SpmmCsr ==
    /\ pc = "ready" /\ op = "spmm_csr"
    /\ LET r == spmm_csr(c, beta, alpha, trans_a, a, trans_b, b)
       IN c' = r.c /\ result' = r.result /\ calls' = r.calls
          /\ unreachable' = r.unreachable
    /\ pc' = "done"
    /\ UNCHANGED <<op, a, b, c0, beta, alpha, trans_a, trans_b>>

Next == SpmmCsrDense \/ SpaddCsr \/ SpmmCsr

Spec == Init /\ [][Next]_vars

SpecDense == InitDense /\ [][SpmmCsrDense]_vars

SpecAdd == InitAdd /\ [][SpaddCsr]_vars

SpecMM == InitMM /\ [][SpmmCsr]_vars

(***************************************************************************)
(* Reference semantics the kernels are compared with.                      *)
(***************************************************************************)
RECURSIVE SumTo(_, _)
SumTo(f, n) == IF n = 0 THEN 0 ELSE f[n] + SumTo(f, n - 1)

\* op(X)[i,j] for a sparse and for a dense X.
OpGet(m, t, i, j) == IF t THEN Get(m, j, i) ELSE Get(m, i, j)

OpGetDense(m, t, i, j) == IF t THEN m.data[j][i] ELSE m.data[i][j]

\* The stored positions of op(X).
OpPattern(m, t) == IF t THEN {<<q[2], q[1]>> : q \in PatternOf(m)} ELSE PatternOf(m)

\* The positions the product op(A)*op(B) writes to.
ProductPattern(am, ta, bm, tb) ==
    {r \in Positions(OpRows(am, ta), OpCols(bm, tb)) :
        \E k \in 1..OpCols(am, ta) :
            <<r[1], k>> \in OpPattern(am, ta) /\ <<k, r[2]>> \in OpPattern(bm, tb)}

Done(kernel) == pc = "done" /\ op = kernel

(***************************************************************************)
(* spmm_csr_dense                                                          *)
(***************************************************************************)
\* C1: for dimension-compatible operands and every flag combination,
\* spmm_csr_dense leaves C[i,j] = beta*C_old[i,j] + alpha*sum_k op(A)[i,k]*op(B)[k,j]
\* at every entry, on the dot-product path and on the scatter path alike.
C1_DenseProduct ==
    (Done("spmm_csr_dense") /\ CompatibleSpmmDims(c0, a, b, trans_a, trans_b)) =>
        /\ result = "Ok"
        /\ c.nrows = c0.nrows /\ c.ncols = c0.ncols
        /\ \A i \in 1..c0.nrows : \A j \in 1..c0.ncols :
            c.data[i][j] =
                beta * c0.data[i][j]
                + alpha * SumTo([k \in 1..OpCols(a, trans_a) |->
                                    OpGet(a, trans_a, i, k) * OpGetDense(b, trans_b, k, j)],
                                OpCols(a, trans_a))

\* The scatter path on a non-square A with two stored entries and beta = 2.
C1_Witness ==
    /\ Done("spmm_csr_dense") /\ result = "Ok"
    /\ trans_a /\ trans_b /\ beta = 2
    /\ a.nrows = 1 /\ a.ncols = 2 /\ Nnz(a) = 2 /\ b.nrows = 2
    /\ c # c0

(***************************************************************************)
(* spadd_csr                                                               *)
(***************************************************************************)
\* The update C <- beta*C + alpha*op(A) holds at the stored position q of C.
AddedAt(q) ==
    Get(c, q[1], q[2]) = beta * Get(c0, q[1], q[2]) + alpha * OpGet(a, trans_a, q[1], q[2])

\* C2: for dimension-compatible A and C with every stored position of op(A) in
\* C's pattern, for both values of trans_a and whether or not the pattern object
\* is shared, spadd_csr returns Ok and every stored C[i,j] is
\* beta*C_old[i,j] + alpha*op(A)[i,j].
C2_AddResult ==
    (/\ Done("spadd_csr")
     /\ CompatibleSpaddDims(c0, a, trans_a)
     /\ OpPattern(a, trans_a) \subseteq PatternOf(c0)) =>
        /\ result = "Ok"
        /\ \A q \in PatternOf(c0) : AddedAt(q)

\* C3: for dimension-compatible A and C and both values of trans_a, a stored
\* position of op(A) that C's pattern lacks makes spadd_csr return InvalidPattern.
C3_AddInvalidPattern ==
    (/\ Done("spadd_csr")
     /\ CompatibleSpaddDims(c0, a, trans_a)
     /\ ~(OpPattern(a, trans_a) \subseteq PatternOf(c0))) =>
        result = "InvalidPattern"

\* The stored columns of row i.
RowCols(m, i) == {m.col_indices[p] : p \in RowBegin(m, i)..RowEnd(m, i)}

\* The rows of A holding a stored column that the same row of C lacks.
OffendingRows == {i \in 1..a.nrows : ~(RowCols(a, i) \subseteq RowCols(c0, i))}

FirstOffendingRow == CHOOSE i \in OffendingRows : \A i2 \in OffendingRows : i <= i2

\* C7: on the non-transposed general path, when spadd_csr returns InvalidPattern
\* and i is the first row of A with a stored column absent from C's row i, the
\* rows before i hold the completed update and the rows after i are as they were.
C7_AddPartialFailure ==
    (/\ Done("spadd_csr")
     /\ ~trans_a
     /\ c0.pattern # a.pattern
     /\ result = "InvalidPattern") =>
        /\ OffendingRows # {}
        /\ \A q \in PatternOf(c0) :
            /\ q[1] < FirstOffendingRow => AddedAt(q)
            /\ q[1] > FirstOffendingRow => Get(c, q[1], q[2]) = Get(c0, q[1], q[2])

\* The scan fails in row 1 after that row was scaled, and row 2 of C has entries.
C7_Witness ==
    /\ Done("spadd_csr") /\ ~trans_a /\ c0.pattern # a.pattern
    /\ result = "InvalidPattern"
    /\ beta = 2
    /\ OffendingRows # {} /\ FirstOffendingRow = 1
    /\ c0.nrows = 2 /\ RowCols(c0, 2) # {} /\ RowCols(c0, 1) # {}
    /\ c # c0

\* A and C have the same shape and the same stored positions.
SameStructure(x, y) ==
    /\ x.nrows = y.nrows /\ x.ncols = y.ncols
    /\ x.row_offsets = y.row_offsets /\ x.col_indices = y.col_indices

\* The same call with C on the other side of the identity test: sharing A's
\* pattern object if it did not, owning an equal pattern if it did.
OtherPathCall ==
    spadd_csr([c0 EXCEPT !.pattern = IF c0.pattern = a.pattern THEN "pc" ELSE a.pattern],
              beta, alpha, trans_a, a)

\* C10: for trans_a false and structurally equal patterns, the fast path and
\* the general path both return Ok and leave the same values in C, which are
\* beta*C_old + alpha*A entry by entry; with beta = 0 and alpha = 1, C equals A.
C10_AddPathsAgree ==
    (Done("spadd_csr") /\ ~trans_a /\ SameStructure(c0, a)) =>
        /\ result = "Ok"
        /\ OtherPathCall.result = "Ok"
        /\ OtherPathCall.c.values = c.values
        /\ \A p \in 1..Nnz(c0) : c.values[p] = beta * c0.values[p] + alpha * a.values[p]
        /\ (beta = 0 /\ alpha = 1) => c.values = a.values

\* The general path on a full 2x2 pattern equal to A's, with beta = 0, alpha = 1.
C10_Witness ==
    /\ Done("spadd_csr") /\ ~trans_a /\ SameStructure(c0, a)
    /\ c0.pattern # a.pattern
    /\ beta = 0 /\ alpha = 1
    /\ Nnz(a) = 4
    /\ c.values = a.values /\ c # c0

(***************************************************************************)
(* spmm_csr                                                                *)
(***************************************************************************)
OpMatrix(m, t) == IF t THEN Transposed(m) ELSE m

\* C4: for dimension-compatible operands and every flag combination, when C's
\* pattern holds every position of the product, spmm_csr returns Ok and every
\* stored C[i,j] is beta*C_old[i,j] + alpha*sum_k op(A)[i,k]*op(B)[k,j]; the result
\* is that of the non-transposed call on explicitly transposed copies.
C4_SparseProduct ==
    (/\ Done("spmm_csr")
     /\ CompatibleSpmmDims(c0, a, b, trans_a, trans_b)
     /\ ProductPattern(a, trans_a, b, trans_b) \subseteq PatternOf(c0)) =>
        /\ result = "Ok"
        /\ \A q \in PatternOf(c0) :
            Get(c, q[1], q[2]) =
                beta * Get(c0, q[1], q[2])
                + alpha * SumTo([k \in 1..OpCols(a, trans_a) |->
                                    OpGet(a, trans_a, q[1], k) * OpGet(b, trans_b, k, q[2])],
                                OpCols(a, trans_a))
        /\ c = spmm_csr(c0, beta, alpha, FALSE, OpMatrix(a, trans_a),
                        FALSE, OpMatrix(b, trans_b)).c

\* Both operands transposed, a product on several positions, C's pattern larger.
C4_Witness ==
    /\ Done("spmm_csr") /\ result = "Ok"
    /\ trans_a /\ trans_b /\ beta = 2
    /\ Nnz(a) >= 2 /\ Nnz(b) >= 2
    /\ Cardinality(ProductPattern(a, trans_a, b, trans_b)) >= 2
    /\ ProductPattern(a, trans_a, b, trans_b) # PatternOf(c0)
    /\ ProductPattern(a, trans_a, b, trans_b) \subseteq PatternOf(c0)
    /\ c # c0

\* C5: for dimension-compatible operands and every flag combination, spmm_csr
\* returns InvalidPattern exactly when some op(A)[i,k] and op(B)[k,j] are stored
\* while (i,j) is not in C's pattern.
C5_MulInvalidPattern ==
    (Done("spmm_csr") /\ CompatibleSpmmDims(c0, a, b, trans_a, trans_b)) =>
        (result = "InvalidPattern"
            <=> ~(ProductPattern(a, trans_a, b, trans_b) \subseteq PatternOf(c0)))

\* A transposed call fails on a position of the product that C lacks although C
\* holds other positions of it.
C5_Witness ==
    /\ Done("spmm_csr") /\ result = "InvalidPattern"
    /\ trans_a /\ ~trans_b
    /\ a.nrows # a.ncols
    /\ ProductPattern(a, trans_a, b, trans_b) \cap PatternOf(c0) # {}
    /\ ~(ProductPattern(a, trans_a, b, trans_b) \subseteq PatternOf(c0))

\* C9: spmm_csr makes at most one recursive call: none when both flags are
\* false, exactly one when a flag is set and the dimensions are compatible, and
\* the (false, false) arm of the match is never entered.
C9_RecursionDepth ==
    Done("spmm_csr") =>
        /\ calls <= 1
        /\ ~unreachable
        /\ (~trans_a /\ ~trans_b) => calls = 0
        /\ ((trans_a \/ trans_b) /\ CompatibleSpmmDims(c0, a, b, trans_a, trans_b))
              => calls = 1

\* A call with one flag set that went through the recursive call.
C9_Witness ==
    /\ Done("spmm_csr") /\ trans_a /\ ~trans_b
    /\ calls = 1 /\ result = "Ok" /\ c # c0

(***************************************************************************)
(* All kernels                                                             *)
(***************************************************************************)
\* C6: spadd_csr and spmm_csr leave C's shape and stored positions as they
\* were, whatever the outcome; only values change.
C6_PatternKept ==
    (pc = "done" /\ op \in {"spadd_csr", "spmm_csr"}) =>
        /\ c.nrows = c0.nrows /\ c.ncols = c0.ncols
        /\ c.row_offsets = c0.row_offsets /\ c.col_indices = c0.col_indices
        /\ PatternOf(c) = PatternOf(c0)
        /\ c.pattern = c0.pattern

\* A transposed addition that failed on a missing position after changing values.
C6_Witness ==
    /\ Done("spadd_csr") /\ trans_a /\ result = "InvalidPattern"
    /\ c0.pattern # a.pattern
    /\ c.values # c0.values

DimsCompatible ==
    IF op = "spadd_csr" THEN CompatibleSpaddDims(c0, a, trans_a)
    ELSE CompatibleSpmmDims(c0, a, b, trans_a, trans_b)

\* C8: in all three kernels, incompatible dimensions abort the call with C
\* untouched, and the recursive call of spmm_csr passes the check whenever the
\* outer call did.
C8_DimsCheckedFirst ==
    pc = "done" =>
        /\ ~DimsCompatible => (result = "Panic" /\ c = c0)
        /\ DimsCompatible => result # "Panic"

\* A dense call with beta = 0 and mismatching dimensions that aborted.
C8_Witness ==
    /\ Done("spmm_csr_dense") /\ ~DimsCompatible
    /\ beta = 0 /\ result = "Panic" /\ c = c0

====
